---- MODULE Spec2Model ----
(***************************************************************************)
(* Chat pipeline of the card-comparison site: the fixed-window rate        *)
(* limiter (checkRateLimit) and the request state machine                  *)
(* (generateResponse) with validation, retry/backoff and error             *)
(* translation.                                                            *)
(*                                                                         *)
(* Strings are sequences of tokens.  A token is one character where the    *)
(* code inspects characters (digits) and one whole phrase where the code   *)
(* only ever treats the phrase as a unit; String.includes is a real        *)
(* subsequence search over the tokens.                                     *)
(***************************************************************************)
EXTENDS Integers, Sequences, FiniteSets

(* ---------------- program constants ---------------- *)

windowMs == 60000

maxRequests == 10

MAX_RETRIES == 3

RETRY_DELAY == 1000

(* ---------------- bounds of the model ---------------- *)

\* wall-clock time at which the process starts serving (2.5 s before a
\* bucket boundary, so that backoff delays cross into the next bucket)
StartTime == 57500

\* the request model stops the clock here
MaxTime == 64500

\* the limiter-only model stops the clock here
MaxLimiterTime == 147500

Requests == {"r1", "r2"}

\* clock steps of the request model and of the limiter-only model
RequestTicks == {1000}

LimiterTicks == {windowMs \div 2}

\* longest conversation given to the validator on its own
MaxTurns == 4

\* longest query (in tokens) given to the search-query enhancer on its own
MaxQueryLen == 3

\* most line breaks in a text given to enhanceMarkdown on its own
MaxNewlines == 2

\* longest message (in tokens) posted to /api/chat
MaxMessageLen == 3

\* most messages the chat UI sends in one run
MaxSubmits == 3

\* the storage calls of the catalog routes followed
MaxWrites == 2

\* checks already admitted in the current bucket when the tracked requests
\* arrive (earlier traffic of the same process)
PriorAdmitted == {0, 8, 9, 10}

VARIABLES
    now,          \* Date.now()
    tokens,       \* RATE_LIMIT.tokens: bucket key -> [count, resetTime]
    admitted,     \* history: bucket key -> number of checks ever admitted in it
    admitLog,     \* history: times of the admitted direct checks
    lastCheck,    \* history: the last direct check and what it returned
    pc,           \* per request: "idle", "fetching", "sleeping", "done"
    conv,         \* per request: the messages argument
    retryCount,   \* per request: the retryCount argument of the current invocation
    wakeAt,       \* per request: when the backoff timer may fire
    calls,        \* history: provider calls issued by the request
    delays,       \* history: the backoff delays the request has scheduled
    validations,  \* history: how often the request's conversation was validated
    answers,      \* history: the HTTP statuses the provider answered (0: no answer)
    rejected,     \* history: the limiter's rejection of the request, if any
    outcome,      \* per request: what the caller receives
    sent,         \* history: the messages of the request's latest provider call
    query,        \* history: the search_query of the request's latest provider call
    received,     \* history: the parsed body of the answer the request returned from
    arg,          \* the argument of the pure function under check
    res,          \* its result, once it has been applied
    inputValue,   \* AIChat: the text in the input field
    isLoading,    \* AIChat: a chat request is being waited for
    uiMessages,   \* AIChat: messages, the conversation shown
    inFlight,     \* the /api/chat requests of the chat UI not yet settled
    submits,      \* history: requests sent, assistant messages, error toasts
    session,      \* req.session of the one browser session
    catalog,      \* storage: the ids held in each catalog collection
    storageWrites, \* history: create/update/delete calls that reached storage
    reply         \* history: the last request handled and its response

vars == <<now, tokens, admitted, admitLog, lastCheck, pc, conv, retryCount,
          wakeAt, calls, delays, validations, answers, rejected, outcome,
          sent, query, received, arg, res, inputValue, isLoading, uiMessages,
          inFlight, submits, session, catalog, storageWrites, reply>>

reqVars == <<pc, conv, retryCount, wakeAt, calls, delays, validations,
             answers, rejected, outcome, sent, query, received>>

limiterVars == <<now, tokens, admitted, admitLog, lastCheck>>

pureVars == <<arg, res>>

uiVars == <<inputValue, isLoading, uiMessages, inFlight, submits>>

serverVars == <<session, catalog, storageWrites, reply>>

appVars == <<uiVars, serverVars>>

(* ---------------- strings ---------------- *)

DigitChars == <<"0", "1", "2", "3", "4", "5", "6", "7", "8", "9">>

RECURSIVE numToString(_)
\* Number.prototype.toString / template-literal interpolation of a number
numToString(n) ==
    IF n < 10 THEN <<DigitChars[n + 1]>>
    ELSE numToString(n \div 10) \o <<DigitChars[(n % 10) + 1]>>

\* String.prototype.includes
Includes(s, p) ==
    \E i \in 0..(Len(s) - Len(p)) : SubSeq(s, i + 1, i + Len(p)) = p

TwoDigits(n) == IF n < 10 THEN <<"0">> \o numToString(n) ELSE numToString(n)

\* Date.prototype.toLocaleTimeString: the time of day to the second; the
\* date and the milliseconds are not part of the text
toLocaleTimeString(t) ==
    LET s == (t \div 1000) % 86400
    IN  numToString(s \div 3600) \o <<":">> \o TwoDigits((s % 3600) \div 60)
            \o <<":">> \o TwoDigits(s % 60)

(* ---------------- rate limiter ---------------- *)

\* Math.floor(now / RATE_LIMIT.windowMs); the map key is this number's
\* decimal text, which is one-to-one with the number
windowKey(t) == t \div windowMs

\* variant: the limit compared with > instead of >=
BucketFull_OffByOne(count) == count > maxRequests

\* tokenBucket.count >= RATE_LIMIT.maxRequests
BucketFull(count) == count >= maxRequests

\* variant: the cleanup deletes nothing
Expired_Never(toks, t) == {}

\* variant: the bucket made at time t expires at its creation
NewBucket_ExpiresAtCreation(t) == [count |-> 0, resetTime |-> t]

\* the bucket made by a check at time t
NewBucket(t) == [count |-> 0, resetTime |-> t + windowMs]

\* variant: the cleanup compares against the end of the fresh window
Expired_DropsFresh(toks, t) == {k \in DOMAIN toks : toks[k].resetTime <= t + windowMs}

\* the entries the cleanup loop deletes: value.resetTime < now
Expired(toks, t) == {k \in DOMAIN toks : toks[k].resetTime < t}

\* variant: the counter is incremented before it is compared, so a rejected
\* check is counted too
checkRateLimit_CountsRejected(toks, t) ==
    LET key    == windowKey(t)
        isNew  == key \notin DOMAIN toks
        bucket == IF isNew THEN [count |-> 0, resetTime |-> t + windowMs]
                  ELSE toks[key]
        kept   == IF isNew THEN DOMAIN toks \ Expired(toks, t) ELSE DOMAIN toks
        bumped == [k \in kept \cup {key} |->
                     IF k = key THEN [bucket EXCEPT !.count = @ + 1] ELSE toks[k]]
    IN  [allowed |-> ~BucketFull(bucket.count), resetTime |-> bucket.resetTime,
         tokens |-> bumped]

\* variant: the increment is applied to a copy of the bucket and never
\* written back to the map
checkRateLimit_LostUpdate(toks, t) ==
    LET key    == windowKey(t)
        isNew  == key \notin DOMAIN toks
        bucket == IF isNew THEN [count |-> 0, resetTime |-> t + windowMs]
                  ELSE toks[key]
        kept   == IF isNew THEN DOMAIN toks \ Expired(toks, t) ELSE DOMAIN toks
    IN  [allowed |-> ~BucketFull(bucket.count), resetTime |-> bucket.resetTime,
         tokens |-> [k \in kept \cup {key} |-> IF k = key THEN bucket ELSE toks[k]]]

\* checkRateLimit(): the result and the map afterwards
checkRateLimit(toks, t) ==
    LET key     == windowKey(t)
        isNew   == key \notin DOMAIN toks
        bucket  == IF isNew THEN NewBucket(t) ELSE toks[key]
        withNew == IF isNew
                   THEN [k \in DOMAIN toks \cup {key} |->
                            IF k = key THEN bucket ELSE toks[k]]
                   ELSE toks
        cleaned == IF isNew
                   THEN [k \in DOMAIN withNew \ Expired(withNew, t) |-> withNew[k]]
                   ELSE withNew
    IN  IF BucketFull(bucket.count)
        THEN [allowed |-> FALSE, resetTime |-> bucket.resetTime, tokens |-> cleaned]
        ELSE [allowed |-> TRUE, resetTime |-> bucket.resetTime,
              tokens |-> IF key \in DOMAIN cleaned
                         THEN [cleaned EXCEPT ![key].count = @ + 1]
                         ELSE cleaned]

\* the bucket's counter, 0 when the bucket is not tracked
CountOf(toks, k) == IF k \in DOMAIN toks THEN toks[k].count ELSE 0

NoCheck == [at |-> 0, prior |-> 0, allowed |-> TRUE, resetTime |-> 0]

EmptyMap == [k \in {} |-> [count |-> 0, resetTime |-> 0]]

BucketKeys == 0..(MaxLimiterTime \div windowMs + 1)

(* ---------------- messages and errors ---------------- *)

Msg(role, content) == [role |-> role, content |-> content]

\* the conversations callers pass: a single question; a follow-up after an
\* answer, with a caller-supplied system turn first; the same with the system
\* turn after the first question; a conversation that opens with an
\* assistant turn; and two user turns in a row
Conversations ==
    { <<Msg("user", <<"best", " ", "Cashback", " ", "card">>)>>,
      <<Msg("system", <<"sys">>), Msg("user", <<"best", " ", "Cashback", " ", "card">>),
        Msg("assistant", <<"a1">>), Msg("user", <<"with", " ", "lounge">>)>>,
      <<Msg("user", <<"best", " ", "Cashback", " ", "card">>), Msg("system", <<"sys">>),
        Msg("assistant", <<"a1">>), Msg("user", <<"with", " ", "lounge">>)>>,
      <<Msg("assistant", <<"a1">>), Msg("user", <<"with", " ", "lounge">>)>>,
      <<Msg("user", <<"best", " ", "Cashback", " ", "card">>),
        Msg("user", <<"with", " ", "lounge">>)>> }

\* messages.filter(msg => msg.role !== "system")
nonSystemMessages(messages) == SelectSeq(messages, LAMBDA m : m.role # "system")

\* variant: the adjacency loop runs over all messages, system turns included
validateMessageStructure_NoFilter(messages) ==
    LET ns == nonSystemMessages(messages)
    IN  IF Len(messages) = 0 THEN TRUE
        ELSE IF Len(ns) = 0 THEN TRUE
        ELSE IF \E i \in 1..(Len(messages) - 1) : messages[i].role = messages[i + 1].role
        THEN FALSE
        ELSE IF Len(ns) > 0 /\ ns[Len(ns)].role # "user" THEN FALSE
        ELSE TRUE

\* variant: only the role of the last turn is checked
validateMessageStructure_LastOnly(messages) ==
    LET ns == nonSystemMessages(messages)
    IN  IF Len(messages) = 0 THEN TRUE
        ELSE IF Len(ns) = 0 THEN TRUE
        ELSE IF Len(ns) > 0 /\ ns[Len(ns)].role # "user" THEN FALSE
        ELSE TRUE

validateMessageStructure(messages) ==
    LET ns == nonSystemMessages(messages)
    IN  IF Len(messages) = 0 THEN TRUE
        ELSE IF Len(ns) = 0 THEN TRUE
        ELSE IF \E i \in 1..(Len(ns) - 1) : ns[i].role = ns[i + 1].role THEN FALSE
        ELSE IF Len(ns) > 0 /\ ns[Len(ns)].role # "user" THEN FALSE
        ELSE TRUE

RateLimitPhrase == "Rate limit exceeded"

InvalidStructureMessage ==
    <<"Invalid message structure: After system messages, user and assistant roles must alternate">>

RateLimitMessage(resetTime) ==
    <<RateLimitPhrase, ". Please try again after ">> \o toLocaleTimeString(resetTime)

ApiErrorMessage(status, text) ==
    <<"Perplexity API error (">> \o numToString(status) \o <<"): ">> \o text

\* what fetch rejects with when no HTTP answer arrives
NetworkErrorMessage == <<"fetch failed">>

\* JSON.parse's SyntaxError names the offending text
ParseErrorMessage(text) == <<"Unexpected token ">> \o text

ServiceBusyMessage ==
    <<"Service is temporarily busy. Please try again in a few moments.">>

AuthErrorMessage == <<"Authentication error. Please check your API key.">>

ServiceErrorMessage ==
    <<"Service is experiencing issues. Please try again later.">>

UnknownErrorMessage == <<"An unexpected error occurred. Please try again.">>

\* variant: the phrase is looked for in lower case
IsRateLimitError_WrongCase(message) == Includes(message, <<"rate limit exceeded">>)

\* error.message.includes("Rate limit exceeded")
IsRateLimitError(message) == Includes(message, <<RateLimitPhrase>>)

\* the errorMessage conditional at the end of the catch block
errorMessage(message) ==
    IF Includes(message, <<"4", "2", "9">>) THEN ServiceBusyMessage
    ELSE IF Includes(message, <<"4", "0", "1">>) THEN AuthErrorMessage
    ELSE IF Includes(message, <<"5">>) THEN ServiceErrorMessage
    ELSE UnknownErrorMessage

\* RETRY_DELAY * (retryCount + 1)
BackoffDelay(k) == RETRY_DELAY * (k + 1)

\* retryCount < MAX_RETRIES
MayRetry(k) == k < MAX_RETRIES

NoOutcome == [kind |-> "none", message |-> <<>>, content |-> "", citations |-> <<>>]

Thrown(message) ==
    [kind |-> "error", message |-> message, content |-> "", citations |-> <<>>]

\* variant: the citations are dropped
Returned_NoCitations(content, citations) ==
    [kind |-> "data", message |-> <<>>, content |-> content, citations |-> <<>>]

Returned(content, citations) ==
    [kind |-> "data", message |-> <<>>, content |-> content, citations |-> citations]

\* the catch block of generateResponse for an error with this message caught
\* in the invocation with retry count k: rethrow, back off and recurse, or
\* throw the translated error
Caught(k, message) ==
    IF IsRateLimitError(message)
    THEN [pc |-> "done", outcome |-> Thrown(message), delay |-> 0]
    ELSE IF MayRetry(k)
    THEN [pc |-> "sleeping", outcome |-> NoOutcome, delay |-> BackoffDelay(k)]
    ELSE [pc |-> "done", outcome |-> Thrown(errorMessage(message)), delay |-> 0]

(* ---------------- search query ---------------- *)

baseSearchTerms == "latest Indian credit cards"

SiteClause == "(site:cardinsider.com OR site:bankbazaar.com OR site:cardexpert.in)"

ComparePhraseTail == "detailed features benefits india"

CashbackPhrase == "highest cashback rewards Indian credit cards latest offers"

TravelPhrase ==
    "best Indian airport lounge access credit cards international travel benefits"

PremiumPhrase ==
    "top Indian premium credit cards exclusive lifestyle benefits luxury privileges"

BusinessPhrase == "best Indian business credit cards corporate benefits GST features"

FirstPhrase == "best first credit cards India beginners no credit history"

RewardPhrase == "highest reward rate Indian credit cards points multipliers"

\* query.includes(keyword)
Has(q, keyword) == Includes(q, <<keyword>>)

Whitespace == {" ", "\n"}

RECURSIVE trim(_)
\* String.prototype.trim
trim(s) ==
    IF s = <<>> THEN s
    ELSE IF s[1] \in Whitespace THEN trim(Tail(s))
    ELSE IF s[Len(s)] \in Whitespace THEN trim(SubSeq(s, 1, Len(s) - 1))
    ELSE s

RECURSIVE splitCards(_)
\* query.split(/vs|compare|and/)
splitCards(q) ==
    LET seps == {i \in DOMAIN q : q[i] \in {"vs", "compare", "and"}}
    IN  IF seps = {} THEN <<q>>
        ELSE LET i == CHOOSE x \in seps : \A y \in seps : x <= y
             IN  <<SubSeq(q, 1, i - 1)>> \o splitCards(SubSeq(q, i + 1, Len(q)))

RECURSIVE joinVs(_)
\* cards.join(" vs ")
joinVs(cards) ==
    IF Len(cards) = 0 THEN <<>>
    ELSE IF Len(cards) = 1 THEN cards[1]
    ELSE cards[1] \o <<" ", "vs", " ">> \o joinVs(Tail(cards))

\* variant: the cashback branch is tested before the comparison branch
additionalTerms_CashbackFirst(q) ==
    IF Has(q, "cashback") THEN <<CashbackPhrase>>
    ELSE IF Has(q, "vs") \/ Has(q, "compare")
    THEN LET cards == [i \in DOMAIN splitCards(q) |-> trim(splitCards(q)[i])]
         IN  <<"compare", " ">> \o joinVs(cards) \o <<" ", ComparePhraseTail>>
    ELSE IF Has(q, "travel") \/ Has(q, "lounge") THEN <<TravelPhrase>>
    ELSE IF Has(q, "premium") \/ Has(q, "lifestyle") THEN <<PremiumPhrase>>
    ELSE IF Has(q, "business") THEN <<BusinessPhrase>>
    ELSE IF Has(q, "first") \/ Has(q, "new") THEN <<FirstPhrase>>
    ELSE IF Has(q, "reward") THEN <<RewardPhrase>>
    ELSE <<>>

\* the if / else-if chain of enhanceSearchParams
additionalTerms(q) ==
    IF Has(q, "vs") \/ Has(q, "compare")
    THEN LET cards == [i \in DOMAIN splitCards(q) |-> trim(splitCards(q)[i])]
         IN  <<"compare", " ">> \o joinVs(cards) \o <<" ", ComparePhraseTail>>
    ELSE IF Has(q, "cashback") THEN <<CashbackPhrase>>
    ELSE IF Has(q, "travel") \/ Has(q, "lounge") THEN <<TravelPhrase>>
    ELSE IF Has(q, "premium") \/ Has(q, "lifestyle") THEN <<PremiumPhrase>>
    ELSE IF Has(q, "business") THEN <<BusinessPhrase>>
    ELSE IF Has(q, "first") \/ Has(q, "new") THEN <<FirstPhrase>>
    ELSE IF Has(q, "reward") THEN <<RewardPhrase>>
    ELSE <<>>

\* enhanceSearchParams(query).searchQuery
enhanceSearchParams(q) ==
    <<baseSearchTerms, " ">> \o additionalTerms(q) \o <<" ", SiteClause>>

(* ---------------- request assembly ---------------- *)

\* "For Indian credit cards only: "
Qualifier == <<"For Indian credit cards only:", " ">>

\* String.prototype.toLowerCase on the tokens that hold upper-case letters
LowerToken(tok) ==
    CASE tok = "For Indian credit cards only:" -> "for indian credit cards only:"
      [] tok = "Cashback" -> "cashback"
      [] tok = "Lounge"   -> "lounge"
      [] tok = "VS"       -> "vs"
      [] OTHER            -> tok

toLowerCase(s) == [i \in DOMAIN s |-> LowerToken(s[i])]

\* variant: the qualifier is put in front of every turn
modifiedMessages_AllTurns(messages) ==
    [i \in DOMAIN messages |-> [messages[i] EXCEPT !.content = Qualifier \o @]]

\* messages.map(...): every user turn gets the qualifier in front
modifiedMessages(messages) ==
    [i \in DOMAIN messages |->
        IF messages[i].role = "user"
        THEN [messages[i] EXCEPT !.content = Qualifier \o @]
        ELSE messages[i]]

\* modifiedMessages.find(m => m.role === "user")?.content.toLowerCase() || ""
userQuery(modified) ==
    LET users == {i \in DOMAIN modified : modified[i].role = "user"}
    IN  IF users = {} THEN <<>>
        ELSE toLowerCase(modified[CHOOSE i \in users : \A j \in users : i <= j].content)

CREDIT_CARD_EXPERT_PROMPT == <<"You are a concise credit card expert focusing on the Indian market.">>

\* the system prompt is put in front unless the first turn is a system turn
messagesWithSystemPrompt(modified) ==
    IF Len(modified) > 0 /\ modified[1].role = "system"
    THEN modified
    ELSE <<Msg("system", CREDIT_CARD_EXPERT_PROMPT)>> \o modified

(* ---------------- the provider ---------------- *)

\* response.ok
Ok(status) == status >= 200 /\ status <= 299

ErrorStatuses == {401, 405, 429, 500}

\* response bodies of failed calls: plain text, a text with the digit 5, a
\* text with 429 in it, and the provider's own rate-limit wording
ErrorBodies ==
    { <<"error">>, <<"code ", "5">>, <<"id ", "4", "2", "9">>, <<RateLimitPhrase>> }

NoData == [valid |-> FALSE, content |-> "", hasCitations |-> FALSE, citations |-> <<>>]

\* bodies of 200 answers as JSON.parse sees them: with citations, without
\* the citations field, and a body that is not JSON
OkData ==
    { [valid |-> TRUE, content |-> "answer", hasCitations |-> TRUE,
       citations |-> <<"u1", "u2">>],
      [valid |-> TRUE, content |-> "answer", hasCitations |-> FALSE,
       citations |-> <<>>],
      NoData }

Responses ==
    [status : ErrorStatuses, text : ErrorBodies, data : {NoData}]
        \cup [status : {200}, text : {<<"<html>">>}, data : OkData]

\* the provider behaviours of the concurrent model: a failure and an answer
ConcurrentResponses ==
    { [status |-> 500, text |-> <<"error">>, data |-> NoData],
      [status |-> 200, text |-> <<"<html>">>,
       data |-> [valid |-> TRUE, content |-> "answer", hasCitations |-> TRUE,
                 citations |-> <<"u1", "u2">>]] }

(* ---------------- initial states ---------------- *)

\* the map after c checks were admitted at StartTime
Preloaded(c) ==
    IF c = 0 THEN EmptyMap
    ELSE [k \in {windowKey(StartTime)} |->
            [count |-> c, resetTime |-> StartTime + windowMs]]

InitRequests ==
    /\ pc = [r \in Requests |-> "idle"]
    /\ conv = [r \in Requests |-> <<>>]
    /\ retryCount = [r \in Requests |-> 0]
    /\ wakeAt = [r \in Requests |-> 0]
    /\ calls = [r \in Requests |-> 0]
    /\ delays = [r \in Requests |-> <<>>]
    /\ validations = [r \in Requests |-> 0]
    /\ answers = [r \in Requests |-> {}]
    /\ rejected = [r \in Requests |-> [happened |-> FALSE, attempt |-> 0, resetTime |-> 0]]
    /\ outcome = [r \in Requests |-> NoOutcome]
    /\ sent = [r \in Requests |-> <<>>]
    /\ query = [r \in Requests |-> <<>>]
    /\ received = [r \in Requests |-> NoData]

NoResult == [done |-> FALSE, value |-> <<>>]

Result(v) == [done |-> TRUE, value |-> v]

InitPure ==
    /\ arg = <<>>
    /\ res = NoResult

\* useState of AIChat: the greeting of the assistant, an empty input field
InitUI ==
    /\ inputValue = <<>>
    /\ isLoading = FALSE
    /\ uiMessages = <<[role |-> "assistant", content |-> <<"Hi there! ...">>]>>
    /\ inFlight = 0
    /\ submits = [sent |-> 0, answered |-> 0, toasts |-> 0]

\* the catalog collections behind the mutating routes
Collections == {"categories", "banks", "cards", "articles", "calculators"}

\* a session in which nobody is logged in: req.session.userId is undefined
NoUser == 0

NoReply == [method |-> "", path |-> "", body |-> <<>>, status |-> 0, json |-> <<>>]

\* the stored catalog at the start: every collection holds item 1, in its
\* first revision
InitialCatalog == [c \in Collections |-> [id \in {1} |-> 0]]

\* the server after registerRoutes
InitServer ==
    /\ session = [userId |-> NoUser, isAdmin |-> FALSE]
    /\ catalog = InitialCatalog
    /\ storageWrites = 0
    /\ reply = NoReply

InitApp == InitUI /\ InitServer

Init ==
    /\ now = StartTime
    /\ \E c \in PriorAdmitted :
         /\ tokens = Preloaded(c)
         /\ admitted = [k \in BucketKeys |-> IF k = windowKey(StartTime) THEN c ELSE 0]
    /\ admitLog = <<>>
    /\ lastCheck = NoCheck
    /\ InitRequests
    /\ InitPure
    /\ InitApp

InitLimiter ==
    /\ now = StartTime
    /\ tokens = EmptyMap
    /\ admitted = [k \in BucketKeys |-> 0]
    /\ admitLog = <<>>
    /\ lastCheck = NoCheck
    /\ InitRequests
    /\ InitPure
    /\ InitApp

(* ---------------- actions ---------------- *)

\* the clock advances
Tick(d, max) ==
    /\ now + d <= max
    /\ now' = now + d
    /\ UNCHANGED <<tokens, admitted, admitLog, lastCheck, reqVars, pureVars, appVars>>

\* request r leaves the catch block of the invocation with retry count k
Settle(r, k, message) ==
    LET c == Caught(k, message)
    IN  /\ pc' = [pc EXCEPT ![r] = c.pc]
        /\ outcome' = [outcome EXCEPT ![r] = c.outcome]
        /\ wakeAt' = [wakeAt EXCEPT ![r] = IF c.pc = "sleeping" THEN now + c.delay ELSE 0]
        /\ delays' = [delays EXCEPT ![r] = IF c.pc = "sleeping" THEN Append(@, c.delay) ELSE @]

\* generateResponse(messages, k) from its entry to its first suspension:
\* validation, the rate-limit check and the start of the provider call, or
\* the catch block when one of the first two throws
generateResponse(r, messages, k) ==
    LET rl == checkRateLimit(tokens, now)
    IN  /\ retryCount' = [retryCount EXCEPT ![r] = k]
        /\ validations' = [validations EXCEPT ![r] = @ + 1]
        /\ IF ~validateMessageStructure(messages)
           THEN /\ Settle(r, k, InvalidStructureMessage)
                /\ UNCHANGED <<tokens, admitted, calls, rejected, sent, query>>
           ELSE /\ tokens' = rl.tokens
                /\ IF rl.allowed
                   THEN /\ admitted' = [admitted EXCEPT ![windowKey(now)] = @ + 1]
                        /\ calls' = [calls EXCEPT ![r] = @ + 1]
                        /\ pc' = [pc EXCEPT ![r] = "fetching"]
                        /\ sent' = [sent EXCEPT ![r] =
                               messagesWithSystemPrompt(modifiedMessages(messages))]
                        /\ query' = [query EXCEPT ![r] =
                               enhanceSearchParams(userQuery(modifiedMessages(messages)))]
                        /\ UNCHANGED <<outcome, wakeAt, delays, rejected>>
                   ELSE /\ rejected' = [rejected EXCEPT ![r] =
                               [happened |-> TRUE, attempt |-> k, resetTime |-> rl.resetTime]]
                        /\ Settle(r, k, RateLimitMessage(rl.resetTime))
                        /\ UNCHANGED <<admitted, calls, sent, query>>

\* a caller invokes generateResponse(messages)
Start(r, messages) ==
    /\ pc[r] = "idle"
    /\ conv' = [conv EXCEPT ![r] = messages]
    /\ generateResponse(r, messages, 0)
    /\ UNCHANGED <<now, admitLog, lastCheck, answers, received, pureVars, appVars>>

\* the backoff timer fires and the catch block recurses
Wake(r) ==
    /\ pc[r] = "sleeping"
    /\ now >= wakeAt[r]
    /\ generateResponse(r, conv[r], retryCount[r] + 1)
    /\ UNCHANGED <<now, admitLog, lastCheck, conv, answers, received, pureVars, appVars>>

\* the provider answers: the rest of the try block and, on a throw, the catch
FetchResolve(r, resp) ==
    /\ pc[r] = "fetching"
    /\ answers' = [answers EXCEPT ![r] = @ \cup {resp.status}]
    /\ IF ~Ok(resp.status)
       THEN Settle(r, retryCount[r], ApiErrorMessage(resp.status, resp.text))
                /\ UNCHANGED received
       ELSE IF ~resp.data.valid
       THEN Settle(r, retryCount[r], ParseErrorMessage(resp.text))
                /\ UNCHANGED received
       ELSE /\ pc' = [pc EXCEPT ![r] = "done"]
            /\ received' = [received EXCEPT ![r] = resp.data]
            /\ outcome' = [outcome EXCEPT ![r] =
                   Returned(resp.data.content,
                            IF resp.data.hasCitations THEN resp.data.citations ELSE <<>>)]
            /\ UNCHANGED <<wakeAt, delays>>
    /\ UNCHANGED <<limiterVars, conv, retryCount, calls, validations, rejected,
                   sent, query, pureVars, appVars>>

\* the provider call fails without an HTTP answer
FetchReject(r) ==
    /\ pc[r] = "fetching"
    /\ answers' = [answers EXCEPT ![r] = @ \cup {0}]
    /\ Settle(r, retryCount[r], NetworkErrorMessage)
    /\ UNCHANGED received
    /\ UNCHANGED <<limiterVars, conv, retryCount, calls, validations, rejected,
                   sent, query, pureVars, appVars>>

\* checkRateLimit() called on its own
DirectCheck ==
    LET rl == checkRateLimit(tokens, now)
    IN  /\ tokens' = rl.tokens
        /\ lastCheck' = [at |-> now, prior |-> admitted[windowKey(now)],
                         allowed |-> rl.allowed, resetTime |-> rl.resetTime]
        /\ admitted' = IF rl.allowed
                       THEN [admitted EXCEPT ![windowKey(now)] = @ + 1]
                       ELSE admitted
        /\ admitLog' = IF rl.allowed THEN Append(admitLog, now) ELSE admitLog
        /\ UNCHANGED <<now, reqVars, pureVars, appVars>>

Next ==
    \/ \E m \in Conversations : Start("r1", m)
    \/ Wake("r1")
    \/ \E resp \in Responses : FetchResolve("r1", resp)
    \/ FetchReject("r1")
    \/ \E d \in RequestTicks : Tick(d, MaxTime)

\* one caller, every conversation and every provider behaviour
Spec == Init /\ [][Next]_vars

NextConcurrent ==
    \/ \E r \in Requests : Start(r, <<Msg("user", <<"best", " ", "Cashback", " ", "card">>)>>)
    \/ \E r \in Requests : Wake(r)
    \/ \E r \in Requests, resp \in ConcurrentResponses : FetchResolve(r, resp)
    \/ \E d \in RequestTicks : Tick(d, MaxTime)

\* several callers at once, interleaved at their suspension points
SpecConcurrent == Init /\ [][NextConcurrent]_vars

NextLimiter ==
    \/ DirectCheck
    \/ \E d \in LimiterTicks : Tick(d, MaxLimiterTime)

SpecLimiter == InitLimiter /\ [][NextLimiter]_vars

(* ---------------- the pure functions, applied to typed-in arguments ------- *)

Roles == {"system", "user", "assistant"}

\* one more turn is put at the end of the conversation
AddTurn(role) ==
    /\ Len(arg) < MaxTurns
    /\ arg' = Append(arg, Msg(role, <<"t">>))
    /\ res' = NoResult
    /\ UNCHANGED <<limiterVars, reqVars, appVars>>

\* validateMessageStructure(arg)
ApplyValidate ==
    /\ res' = Result(validateMessageStructure(arg))
    /\ UNCHANGED <<arg, limiterVars, reqVars, appVars>>

NextValidate ==
    \/ \E role \in Roles : AddTurn(role)
    \/ ApplyValidate

SpecValidate == InitLimiter /\ [][NextValidate]_vars

QueryTokens ==
    {"hdfc", " ", "vs", "compare", "and", "cashback", "travel", "lounge", "premium",
     "lifestyle", "business", "first", "new", "reward"}

\* one more token is put at the end of the query
TypeToken(tok) ==
    /\ Len(arg) < MaxQueryLen
    /\ arg' = Append(arg, tok)
    /\ res' = NoResult
    /\ UNCHANGED <<limiterVars, reqVars, appVars>>

\* enhanceSearchParams(arg)
ApplySearch ==
    /\ res' = Result(enhanceSearchParams(arg))
    /\ UNCHANGED <<arg, limiterVars, reqVars, appVars>>

NextSearch ==
    \/ \E tok \in QueryTokens : TypeToken(tok)
    \/ ApplySearch

SpecSearch == InitLimiter /\ [][NextSearch]_vars

(* ---------------- properties ---------------- *)

FixedMessages ==
    {ServiceBusyMessage, AuthErrorMessage, ServiceErrorMessage, UnknownErrorMessage}

\* the status every answer of the provider to r carried, when they all agree
OnlyStatus(r) == CHOOSE s \in answers[r] : TRUE

\* the classification the error taxonomy gives an HTTP status
Classified(status) ==
    IF status = 429 THEN ServiceBusyMessage
    ELSE IF status = 401 THEN AuthErrorMessage
    ELSE IF status >= 500 /\ status <= 599 THEN ServiceErrorMessage
    ELSE UnknownErrorMessage

\* C1: a conversation that fails validation makes generateResponse fail at
\* once with the invalid-structure error: one validation, no backoff delay,
\* and the error the caller receives is the invalid-structure error.
C1_InvalidFailsFast ==
    \A r \in Requests :
        (validations[r] >= 1 /\ ~validateMessageStructure(conv[r]))
            => /\ pc[r] = "done"
               /\ outcome[r] = Thrown(InvalidStructureMessage)
               /\ validations[r] = 1
               /\ delays[r] = <<>>

\* C2: when every attempt of a request reached the provider and was answered
\* 429, the request ends with ServiceBusy after exactly 4 provider calls and
\* the delays 1000, 2000, 3000 in that order.
C2_All429 ==
    \A r \in Requests :
        (pc[r] = "done" /\ answers[r] = {429} /\ ~rejected[r].happened)
            => /\ outcome[r] = Thrown(ServiceBusyMessage)
               /\ calls[r] = 4
               /\ delays[r] = <<1000, 2000, 3000>>

\* C3: once the limiter has rejected an attempt of a request (the first or a
\* retry), the request is finished with the rate-limit error carrying the
\* instant the limiter reported, and nothing happened after the rejection:
\* the retry count, the provider calls and the delays are those of the
\* rejected attempt.
C3_RateLimitedPropagates ==
    \A r \in Requests :
        rejected[r].happened
            => /\ pc[r] = "done"
               /\ outcome[r] = Thrown(RateLimitMessage(rejected[r].resetTime))
               /\ retryCount[r] = rejected[r].attempt
               /\ calls[r] = rejected[r].attempt
               /\ Len(delays[r]) = rejected[r].attempt

\* C3 witness: a retry attempt was rejected by the limiter
C3_Witness ==
    \E r \in Requests : rejected[r].happened /\ rejected[r].attempt >= 1

\* C4: a translated error after exhausted retries is the classification of
\* the provider's HTTP status: 429 ServiceBusy, 401 AuthError, 5xx
\* ServiceError, anything else UnknownError.
C4_ClassifiedByStatus ==
    \A r \in Requests :
        (/\ pc[r] = "done"
         /\ outcome[r].kind = "error"
         /\ outcome[r].message \in FixedMessages
         /\ calls[r] = MAX_RETRIES + 1
         /\ Cardinality(answers[r]) = 1)
            => outcome[r].message = Classified(OnlyStatus(r))

\* C5: an error raised for a failed provider call carries one of the fixed
\* user-facing messages, and it surfaces only after the retries are used up.
C5_NoRawProviderText ==
    \A r \in Requests :
        (/\ pc[r] = "done"
         /\ outcome[r].kind = "error"
         /\ calls[r] >= 1
         /\ ~rejected[r].happened)
            => /\ outcome[r].message \in FixedMessages
               /\ calls[r] = MAX_RETRIES + 1

\* C6: a provider answering 401 is retried with backoff up to 3 times and,
\* after 4 attempts answered 401, the request fails with AuthError.
C6_401Retried ==
    \A r \in Requests :
        (pc[r] = "done" /\ answers[r] = {401} /\ ~rejected[r].happened)
            => /\ calls[r] = MAX_RETRIES + 1
               /\ delays[r] = <<1000, 2000, 3000>>
               /\ outcome[r] = Thrown(AuthErrorMessage)

\* C7: a check made after 10 checks were admitted in its bucket is rejected,
\* and the expiry instant it reports is not before the time of the check.
C7_FullBucketRejects ==
    lastCheck.prior >= maxRequests
        => ~lastCheck.allowed /\ lastCheck.resetTime >= lastCheck.at

\* C7 witness: a check arrived at a bucket that had admitted 10
C7_Witness == lastCheck.prior >= maxRequests /\ lastCheck.at > StartTime

\* C8: a check on a bucket whose counter is below the limit is allowed and
\* adds exactly 1 to that counter; a check on a bucket whose counter has
\* reached the limit is rejected and changes no bucket.
C8_CheckEffect ==
    [][DirectCheck =>
        IF CountOf(tokens, windowKey(now)) < maxRequests
        THEN /\ lastCheck'.allowed
             /\ CountOf(tokens', windowKey(now)) = CountOf(tokens, windowKey(now)) + 1
        ELSE /\ ~lastCheck'.allowed
             /\ tokens' = tokens]_vars

\* C8 witness: a rejected check while another bucket is tracked as well
C8_Witness ==
    /\ ~lastCheck.allowed
    /\ CountOf(tokens, windowKey(lastCheck.at)) = maxRequests
    /\ Cardinality(DOMAIN tokens) = 2

\* the admitted checks in the 60 seconds that start with the i-th admission
AdmittedWithin(i) ==
    {j \in DOMAIN admitLog :
        admitLog[j] >= admitLog[i] /\ admitLog[j] - admitLog[i] <= windowMs}

\* C9: in any interval of 60 seconds at most 2 x 10 = 20 checks are admitted.
C9_AtMostTwiceLimit ==
    \A i \in DOMAIN admitLog : Cardinality(AdmittedWithin(i)) <= 2 * maxRequests

\* C9 witness: 20 checks admitted within less than 60 seconds, 10 in one
\* bucket and 10 in the next
C9_Witness ==
    /\ Len(admitLog) >= 2 * maxRequests
    /\ admitLog[2 * maxRequests] - admitLog[1] < windowMs
    /\ windowKey(admitLog[maxRequests]) + 1 = windowKey(admitLog[maxRequests + 1])

\* C10: with requests interleaved at their suspension points, the checks
\* admitted in a bucket never exceed 10 and equal the bucket's counter.
C10_CounterExact ==
    \A k \in BucketKeys :
        /\ admitted[k] <= maxRequests
        /\ k \in DOMAIN tokens => tokens[k].count = admitted[k]

\* C10 witness: two requests in progress, both admitted, their bucket full,
\* and one of them already in its retry
C10_Witness ==
    /\ \A r \in Requests : pc[r] \in {"fetching", "sleeping"} /\ calls[r] >= 1
    /\ \E r \in Requests : retryCount[r] >= 1
    /\ \E k \in DOMAIN tokens : tokens[k].count = maxRequests

\* the turns of a conversation that are not system turns, by position
NonSystemAt(c) == {i \in DOMAIN c : c[i].role # "system"}

\* two non-system turns with only system turns between them
Neighbours(c, i, j) ==
    /\ i \in NonSystemAt(c) /\ j \in NonSystemAt(c) /\ i < j
    /\ \A k \in NonSystemAt(c) : ~(i < k /\ k < j)

HasRepeatedRole(c) == \E i, j \in DOMAIN c : Neighbours(c, i, j) /\ c[i].role = c[j].role

EndsOnUser(c) ==
    NonSystemAt(c) = {}
        \/ c[CHOOSE i \in NonSystemAt(c) : \A j \in NonSystemAt(c) : j <= i].role = "user"

\* what the validator is to accept
ShouldPass(c) == ~HasRepeatedRole(c) /\ EndsOnUser(c)

\* C11: validateMessageStructure fails for every conversation with two
\* adjacent non-system turns of the same role and for every conversation
\* whose last non-system turn is not a user turn, and passes for every other
\* conversation (the empty one and the system-only ones included).
C11_ValidatorDecides == res.done => (res.value <=> ShouldPass(arg))

\* C11 witness: two user turns separated only by a system turn were rejected
C11_Witness ==
    /\ res.done /\ res.value = FALSE
    /\ Len(arg) = 3 /\ arg[1].role = "user" /\ arg[2].role = "system"
    /\ arg[3].role = "user"

\* the number of non-system turns up to position i
Rank(c, i) == Cardinality({j \in NonSystemAt(c) : j <= i})

\* the Conversation invariant: without the system turns the roles read
\* user, assistant, user, ... and end on user
ConversationInvariant(c) ==
    /\ \A i \in NonSystemAt(c) :
          c[i].role = IF Rank(c, i) % 2 = 1 THEN "user" ELSE "assistant"
    /\ Cardinality(NonSystemAt(c)) % 2 = 1 \/ NonSystemAt(c) = {}

\* C12: every conversation for which a provider call was issued satisfies
\* the Conversation invariant.
C12_SentIsAlternating ==
    \A r \in Requests : calls[r] >= 1 => ConversationInvariant(conv[r])

\* C13: for a conversation that must not pass validation, no provider call
\* is issued and no rate-limit slot is consumed, on the first or any later
\* attempt.
C13_InvalidNeverCalls ==
    \A r \in Requests :
        (validations[r] >= 1 /\ ~ShouldPass(conv[r]))
            => /\ calls[r] = 0
               /\ sent[r] = <<>>
               /\ \E c \in PriorAdmitted :
                     /\ tokens = Preloaded(c)
                     /\ admitted[windowKey(StartTime)] = c

\* C13 witness: an invalid conversation in its last retry
C13_Witness ==
    \E r \in Requests :
        ~ShouldPass(conv[r]) /\ validations[r] = MAX_RETRIES + 1 /\ pc[r] = "done"

\* the outcome of r is an error of the taxonomy
ClassifiedError(r) ==
    \/ outcome[r].message \in FixedMessages
    \/ outcome[r].message = InvalidStructureMessage
    \/ /\ rejected[r].happened
       /\ outcome[r].message = RateLimitMessage(rejected[r].resetTime)

\* C14: a request makes at most 4 provider calls, is at one position at a
\* time, and once finished has exactly one outcome: returned data or one
\* error of the taxonomy (InvalidStructure, RateLimited, ServiceBusy,
\* AuthError, ServiceError, UnknownError).
C14_OneClassifiedOutcome ==
    \A r \in Requests :
        /\ calls[r] <= MAX_RETRIES + 1
        /\ pc[r] = "done" <=> outcome[r].kind # "none"
        /\ pc[r] = "done" =>
              \/ outcome[r].kind = "data"
              \/ outcome[r].kind = "error" /\ ClassifiedError(r)

\* the content of the last user turn of a conversation
LastUserContent(c) ==
    LET users == {i \in DOMAIN c : c[i].role = "user"}
    IN  IF users = {} THEN <<>>
        ELSE c[CHOOSE i \in users : \A j \in users : j <= i].content

\* C15: the search query sent to the provider is the one computed from the
\* latest (last) user turn of the conversation.
C15_QueryFromLatestUserTurn ==
    \A r \in Requests :
        calls[r] >= 1
            => query[r] = enhanceSearchParams(
                              toLowerCase(Qualifier \o LastUserContent(conv[r])))

\* the caller supplied a system turn
HasSystemTurn(c) == \E i \in DOMAIN c : c[i].role = "system"

ExpertTurn == Msg("system", CREDIT_CARD_EXPERT_PROMPT)

\* C16: the list sent begins with a system turn; when the caller's
\* conversation contains a system turn the expert prompt is not in the list,
\* otherwise the expert prompt is its first turn.
C16_OneSystemPrompt ==
    \A r \in Requests :
        calls[r] >= 1
            => /\ sent[r][1].role = "system"
               /\ IF HasSystemTurn(conv[r])
                  THEN \A i \in DOMAIN sent[r] : sent[r][i] # ExpertTurn
                  ELSE sent[r][1] = ExpertTurn

\* the turns sent, without the expert prompt the code put in front
SentTurns(r) ==
    IF Len(sent[r]) = Len(conv[r]) + 1 THEN Tail(sent[r]) ELSE sent[r]

\* C17: in every provider call, first attempt or retry, the turns sent are
\* the caller's turns in the caller's order, every user turn with the
\* qualifier in front of its original content exactly once, every other
\* turn unchanged; and the caller's conversation stays as it was handed in.
SentAsGiven(r) ==
    /\ Len(SentTurns(r)) = Len(conv[r])
    /\ \A i \in DOMAIN conv[r] :
          /\ SentTurns(r)[i].role = conv[r][i].role
          /\ SentTurns(r)[i].content =
                IF conv[r][i].role = "user"
                THEN Qualifier \o conv[r][i].content
                ELSE conv[r][i].content

C17_QualifierOnce ==
    /\ [](\A r \in Requests : calls[r] >= 1 => SentAsGiven(r))
    /\ [][\A r \in Requests : pc[r] # "idle" => conv'[r] = conv[r]]_vars

\* C17 witness: the call of the last retry of a conversation with user,
\* assistant and system turns is in flight
C17_Witness ==
    \E r \in Requests :
        /\ pc[r] = "fetching" /\ retryCount[r] = MAX_RETRIES
        /\ Len(conv[r]) = 4 /\ conv[r][1].role = "system"

\* C18: a request that returned data returned the content of the answer it
\* received unchanged and its citations in the same order (none when the
\* answer has no citations field), and made no attempt after that answer.
C18_PassThrough ==
    \A r \in Requests :
        outcome[r].kind = "data"
            => /\ received[r].valid
               /\ outcome[r].content = received[r].content
               /\ outcome[r].citations =
                     IF received[r].hasCitations THEN received[r].citations ELSE <<>>
               /\ pc[r] = "done"
               /\ calls[r] = retryCount[r] + 1
               /\ Len(delays[r]) = retryCount[r]

\* C18 witness: the answer to the second retry carried two citations
C18_Witness ==
    \E r \in Requests :
        /\ outcome[r].kind = "data" /\ retryCount[r] = 2
        /\ Len(outcome[r].citations) = 2
        /\ outcome[r].citations[1] # outcome[r].citations[2]

\* the keyword groups in the priority order of the claim, and their phrases
GroupKeywords ==
    << {"vs", "compare"}, {"cashback"}, {"travel", "lounge"}, {"premium", "lifestyle"},
       {"business"}, {"first", "new"}, {"reward"} >>

GroupPhrase ==
    << ComparePhraseTail, CashbackPhrase, TravelPhrase, PremiumPhrase, BusinessPhrase,
       FirstPhrase, RewardPhrase >>

\* the groups a query has a keyword of
MatchingGroups(q) ==
    {g \in DOMAIN GroupKeywords : \E i \in DOMAIN q : q[i] \in GroupKeywords[g]}

\* C19: every result of enhanceSearchParams starts with the base term and
\* ends with the site-restriction clause, and the phrase of a keyword group
\* appears in it exactly when that group is the first one, in the order
\* comparison > cashback > travel/lounge > premium/lifestyle > business >
\* first/new > reward, that the query matches.
C19_FirstMatchWins ==
    res.done
        => LET v == res.value
               m == MatchingGroups(arg)
           IN  /\ Len(v) >= 3
               /\ v[1] = baseSearchTerms
               /\ v[Len(v)] = SiteClause
               /\ \A g \in DOMAIN GroupPhrase :
                     (\E i \in DOMAIN v : v[i] = GroupPhrase[g])
                         <=> (g \in m /\ \A h \in m : g <= h)

\* C19 witness: a result for a query with keywords of three groups
C19_Witness ==
    /\ res.done
    /\ Cardinality(MatchingGroups(arg)) = 3
    /\ \E i \in DOMAIN res.value : res.value[i] = CashbackPhrase

(* ---------------- regular expressions ----------------
   A text is a sequence of characters (one-character strings); the heading
   text "Best Suited For" is carried as one character-like unit.  A regular
   expression of the source is the sequence of its nodes, written with the
   constructors below and \o for juxtaposition.  It is matched as the
   JavaScript engine matches it: alternatives and greedy repetitions are
   tried in priority order and the first complete match wins. *)

\* a literal character, or a class [...]
Chr(set) == <<[t |-> "chr", set |-> set, neg |-> FALSE, grp |-> 0]>>

\* a negated class [^...]
NotChr(set) == <<[t |-> "chr", set |-> set, neg |-> TRUE, grp |-> 0]>>

\* a|b
Alt(a, b) == <<[t |-> "alt", a |-> a, b |-> b]>>

\* greedy n{min,max}; unbounded when inf
Rep(n, min, max, inf) ==
    <<[t |-> "rep", n |-> n, min |-> min, max |-> max, inf |-> inf, grp |-> 0]>>

\* n*
Star(n) == Rep(n, 0, 0, TRUE)

\* n+
Plus(n) == Rep(n, 1, 0, TRUE)

\* n?
Opt(n) == Rep(n, 0, 1, FALSE)

\* n{k,}
AtLeast(n, k) == Rep(n, k, 0, TRUE)

\* the node repeats one character class
RepeatsClass(n) == Len(n.n) = 1 /\ n.n[1].t = "chr"

\* the nodes are one character class, or one repeated character class
OneClass(ns) ==
    /\ Len(ns) = 1
    /\ IF ns[1].t = "rep" THEN RepeatsClass(ns[1]) ELSE ns[1].t = "chr"

\* capturing group number k: noted on the node when the group holds one
\* (repeated) class, otherwise marked before and after its nodes
Grp(k, ns) ==
    IF OneClass(ns) THEN <<[ns[1] EXCEPT !.grp = k]>>
    ELSE <<[t |-> "open", k |-> k]>> \o ns \o <<[t |-> "close", k |-> k]>>

\* ^ with the m flag
Bol == <<[t |-> "bol"]>>

\* $ with the m flag
Eol == <<[t |-> "eol"]>>

\* (?<!c)
NotAfter(set) == <<[t |-> "notafter", set |-> set]>>

\* \s
Space == Chr(Whitespace)

\* . and [^\n]
NotNewline == NotChr({"\n"})

\* no capturing group has taken part
NoCaptures == [k \in 1..3 |-> [from |-> 1, to |-> 0]]

NoMatch == [ok |-> FALSE]

\* character ch is in the class of the "chr" node n
InClass(n, ch) == (ch \in n.set) # n.neg

\* the number of characters of s from position p on that are in the class of
\* n, at most max of them unless inf
RunLength(n, s, p, max, inf) ==
    LET stops == {j \in p..Len(s) : ~InClass(n, s[j])}
        all == IF stops = {} THEN Len(s) - p + 1
               ELSE (CHOOSE j \in stops : \A i \in stops : j <= i) - p
    IN  IF inf \/ all <= max THEN all ELSE max

\* the captures c after group k, if any, took the text from..to
Capture(c, k, from, to) ==
    IF k = 0 THEN c ELSE [c EXCEPT ![k] = [from |-> from, to |-> to]]

RECURSIVE Run(_, _, _, _)
\* the first match, in priority order, of the nodes ns against s at
\* position p with captures c
Run(ns, s, p, c) ==
    CASE Len(ns) = 0 -> [ok |-> TRUE, end |-> p, caps |-> c]
      [] Len(ns) > 0 /\ ns[1].t = "chr" ->
           IF p <= Len(s) /\ InClass(ns[1], s[p])
           THEN Run(Tail(ns), s, p + 1, Capture(c, ns[1].grp, p, p))
           ELSE NoMatch
      [] Len(ns) > 0 /\ ns[1].t = "alt" ->
           LET first == Run(ns[1].a \o Tail(ns), s, p, c)
           IN  IF first.ok THEN first ELSE Run(ns[1].b \o Tail(ns), s, p, c)
      [] Len(ns) > 0 /\ ns[1].t = "rep" /\ RepeatsClass(ns[1]) ->
           \* greedy: the longest run of the class that the rest of the
           \* expression can follow
           LET n == ns[1]
               fits == {x \in {[k |-> k,
                                r |-> Run(Tail(ns), s, p + k,
                                          Capture(c, n.grp, p, p + k - 1))] :
                                   k \in n.min..RunLength(n.n[1], s, p, n.max, n.inf)} :
                           x.r.ok}
           IN  IF fits = {} THEN NoMatch
               ELSE (CHOOSE x \in fits : \A y \in fits : y.k <= x.k).r
      [] Len(ns) > 0 /\ ns[1].t = "rep" /\ ~RepeatsClass(ns[1]) ->
           LET n == ns[1]
               again == [n EXCEPT !.min = IF @ > 0 THEN @ - 1 ELSE 0,
                                  !.max = IF @ > 0 THEN @ - 1 ELSE 0]
               more == IF n.inf \/ n.max > 0
                       THEN Run(n.n \o <<again>> \o Tail(ns), s, p, c)
                       ELSE NoMatch
           IN  IF more.ok THEN more
               ELSE IF n.min = 0 THEN Run(Tail(ns), s, p, c)
               ELSE NoMatch
      [] Len(ns) > 0 /\ ns[1].t = "open" ->
           Run(Tail(ns), s, p, Capture(c, ns[1].k, p, p - 1))
      [] Len(ns) > 0 /\ ns[1].t = "close" ->
           Run(Tail(ns), s, p, Capture(c, ns[1].k, c[ns[1].k].from, p - 1))
      [] Len(ns) > 0 /\ ns[1].t = "bol" ->
           IF p = 1 \/ s[p - 1] = "\n" THEN Run(Tail(ns), s, p, c) ELSE NoMatch
      [] Len(ns) > 0 /\ ns[1].t = "eol" ->
           IF p = Len(s) + 1 \/ s[p] = "\n" THEN Run(Tail(ns), s, p, c) ELSE NoMatch
      [] Len(ns) > 0 /\ ns[1].t = "notafter" ->
           IF p = 1 \/ s[p - 1] \notin ns[1].set THEN Run(Tail(ns), s, p, c) ELSE NoMatch

RECURSIVE MatchesFrom(_, _)
\* the successive matches of a /g expression from position i on, found
\* among the matches at every position: leftmost first, the next search
\* starting where the last match ended
MatchesFrom(found, i) ==
    LET later == {m \in found : m.from >= i}
    IN  IF later = {} THEN <<>>
        ELSE LET m == CHOOSE x \in later : \A y \in later : x.from <= y.from
             IN  <<m>> \o MatchesFrom(found, IF m.to >= m.from THEN m.to + 1
                                                                ELSE m.from + 1)

\* the match of re at position j of s, if there is one
MatchAt(re, s, j) ==
    LET r == Run(re, s, j, NoCaptures)
    IN  IF r.ok THEN {[from |-> j, to |-> r.end - 1, caps |-> r.caps]} ELSE {}

Matches(re, s) == MatchesFrom(UNION {MatchAt(re, s, j) : j \in 1..(Len(s) + 1)}, 1)

\* the text of capturing group k of match m
Group(s, m, k) == SubSeq(s, m.caps[k].from, m.caps[k].to)

RECURSIVE Flatten(_)
Flatten(parts) == IF Len(parts) = 0 THEN <<>> ELSE Head(parts) \o Flatten(Tail(parts))

\* the texts between the matches ms of s, before the first and after the
\* last one included
Gaps(s, ms) ==
    [k \in 1..(Len(ms) + 1) |->
        SubSeq(s, IF k = 1 THEN 1 ELSE ms[k - 1].to + 1,
                  IF k = Len(ms) + 1 THEN Len(s) ELSE ms[k].from - 1)]

\* String.prototype.replace with a /g expression whose matches in s are ms
\* (none of the expressions matches in the empty text): match number i is
\* replaced by out[i], the text between the matches is kept
Replace(s, ms, out) ==
    IF Len(s) = 0 THEN s
    ELSE LET gaps == Gaps(s, ms)
         IN  Flatten([k \in 1..(2 * Len(ms) + 1) |->
                         IF k % 2 = 1 THEN gaps[(k + 1) \div 2] ELSE out[k \div 2]])

\* String.prototype.replace(re, text): every match of re in s is replaced by
\* the same text
ReplaceAll(re, s, text) ==
    LET ms == Matches(re, s) IN Replace(s, ms, [i \in DOMAIN ms |-> text])

\* String.prototype.split(re)
split(s, re) == Gaps(s, Matches(re, s))

(* ---------------- enhanceMarkdown ---------------- *)

Pipe == Chr({"|"})

NotPipe == NotChr({"|"})

Newline == Chr({"\n"})

Hash == Chr({"#"})

\* [-:\|\s]
DividerChar == Chr({"-", ":", "|"} \cup Whitespace)

\* /\|\s*([^|]+)\s*\|\s*([^|]+)\s*\|\s*([^|]*)\s*\|/g
tablePattern ==
    Pipe \o Star(Space) \o Grp(1, Plus(NotPipe)) \o Star(Space)
        \o Pipe \o Star(Space) \o Grp(2, Plus(NotPipe)) \o Star(Space)
        \o Pipe \o Star(Space) \o Grp(3, Star(NotPipe)) \o Star(Space) \o Pipe

\* the replacer of tablePattern
tableRow(col1, col2, col3) ==
    IF \/ Includes(col1, <<"-", "-", "-">>)
       \/ Includes(col2, <<"-", "-", "-">>)
       \/ Includes(col3, <<"-", "-", "-">>)
    THEN <<>>
    ELSE <<"*", "*">> \o trim(col1) \o <<"*", "*", ":", " ">> \o trim(col2)
             \o (IF trim(col3) # <<>>
                 THEN <<" ", "-", " ", "_">> \o trim(col3) \o <<"_">>
                 ELSE <<>>)

\* /\|\s*[-:\|\s]+\s*\|\s*[-:\|\s]+\s*\|(\s*[-:\|\s]+\s*\|)?\s*\n/g
dividerPattern ==
    Pipe \o Star(Space) \o Plus(DividerChar) \o Star(Space)
        \o Pipe \o Star(Space) \o Plus(DividerChar) \o Star(Space) \o Pipe
        \o Opt(Grp(1, Star(Space) \o Plus(DividerChar) \o Star(Space) \o Pipe))
        \o Star(Space) \o Newline

BestSuitedFor == "Best Suited For"

\* /(?:##?\s*#?\s*Best Suited For[^\n]*\n+)(\|[^\n]+\|[^\n]*\n\|[-:\|\s]+\|[^\n]*\n)?(.+)/g
bestSuitedForRegex ==
    Hash \o Opt(Hash) \o Star(Space) \o Opt(Hash) \o Star(Space) \o Chr({BestSuitedFor})
        \o Star(NotNewline) \o Plus(Newline)
        \o Opt(Grp(1, Pipe \o Plus(NotNewline) \o Pipe \o Star(NotNewline) \o Newline
                          \o Pipe \o Plus(DividerChar) \o Pipe \o Star(NotNewline)
                          \o Newline))
        \o Grp(2, Plus(NotNewline))

\* '### Best Suited For\n\n'
title == <<"#", "#", "#", " ", BestSuitedFor, "\n", "\n">>

RECURSIVE listContent(_)
\* the for loop over items, three at a time
listContent(items) ==
    IF Len(items) = 0 THEN <<>>
    ELSE (IF Len(items) >= 2
          THEN <<"-", " ", "*", "*">> \o trim(items[1]) \o <<"*", "*", ":", " ">>
                   \o trim(items[2])
                   \o (IF Len(items) >= 3
                       THEN <<" ", "-", " ", "_">> \o trim(items[3]) \o <<"_">>
                       ELSE <<>>)
                   \o <<"\n">>
          ELSE <<>>)
         \o listContent(SubSeq(items, 4, Len(items)))

\* the replacer of bestSuitedForRegex
bestSuitedFor(content) ==
    LET items == SelectSeq(split(content, Alt(Pipe \o Pipe, Pipe)),
                           LAMBDA item : trim(item) # <<>>)
    IN  IF Len(items) > 0
        THEN title \o listContent(items) \o <<"\n">>
        ELSE title \o trim(ReplaceAll(Pipe, content, <<>>)) \o <<"\n">>

\* the twelve replace calls of enhanceMarkdown in the order they run: the
\* expression, and what a match is replaced by
Passes ==
    << [re |-> tablePattern, by |-> "tableRow", text |-> <<>>],
       [re |-> dividerPattern, by |-> "text", text |-> <<>>],
       [re |-> bestSuitedForRegex, by |-> "bestSuitedFor", text |-> <<>>],
       \* /\|{2,}/g  ->  ' - '
       [re |-> AtLeast(Pipe, 2), by |-> "text", text |-> <<" ", "-", " ">>],
       \* /^\|\s*|\s*\|$/gm  ->  ''
       [re |-> Alt(Bol \o Pipe \o Star(Space), Star(Space) \o Pipe \o Eol),
        by |-> "text", text |-> <<>>],
       \* /###([^\n]+)/g  ->  '### $1'
       [re |-> Hash \o Hash \o Hash \o Grp(1, Plus(NotNewline)),
        by |-> "text$1", text |-> <<"#", "#", "#", " ">>],
       \* /##([^\n]+)/g  ->  '## $1'
       [re |-> Hash \o Hash \o Grp(1, Plus(NotNewline)),
        by |-> "text$1", text |-> <<"#", "#", " ">>],
       \* /(?<!\#)#([^\n#]+)/g  ->  '# $1'
       [re |-> NotAfter({"#"}) \o Hash \o Grp(1, Plus(NotChr({"\n", "#"}))),
        by |-> "text$1", text |-> <<"#", " ">>],
       \* /\n-([^\n]+)/g  ->  '\n- $1'
       [re |-> Newline \o Chr({"-"}) \o Grp(1, Plus(NotNewline)),
        by |-> "text$1", text |-> <<"\n", "-", " ">>],
       \* /([^\n])(\n#{1,3} )/g  ->  '$1\n\n$2'
       [re |-> Grp(1, NotNewline)
                  \o Grp(2, Newline \o Rep(Hash, 1, 3, FALSE) \o Chr({" "})),
        by |-> "$1text$2", text |-> <<"\n", "\n">>],
       \* /\n{2,}-/g  ->  '\n\n-'
       [re |-> AtLeast(Newline, 2) \o Chr({"-"}), by |-> "text",
        text |-> <<"\n", "\n", "-">>],
       \* /\n{3,}/g  ->  '\n\n'
       [re |-> AtLeast(Newline, 3), by |-> "text", text |-> <<"\n", "\n">>] >>

\* what the match m of a pass in s is replaced by
Replacement(pass, s, m) ==
    CASE pass.by = "text" -> pass.text
      [] pass.by = "text$1" -> pass.text \o Group(s, m, 1)
      [] pass.by = "$1text$2" -> Group(s, m, 1) \o pass.text \o Group(s, m, 2)
      [] pass.by = "tableRow" ->
            tableRow(Group(s, m, 1), Group(s, m, 2), Group(s, m, 3))
      [] pass.by = "bestSuitedFor" -> bestSuitedFor(Group(s, m, 2))

\* enhanced = enhanced.replace(...) of one pass
ReplaceBy(pass, s) ==
    LET ms == Matches(pass.re, s)
    IN  Replace(s, ms, [i \in DOMAIN ms |-> Replacement(pass, s, ms[i])])

RECURSIVE Enhance(_, _)
\* the passes, one after the other, on the text enhanced
Enhance(passes, enhanced) ==
    IF Len(passes) = 0 THEN enhanced
    ELSE LET next == ReplaceBy(Head(passes), enhanced)
         IN  IF Len(next) >= 0 THEN Enhance(Tail(passes), next) ELSE next

enhanceMarkdown(content) == Enhance(Passes, content)

(* ---------------- enhanceMarkdown on its own ---------------- *)

\* the lines a chat answer is made of: headings with and without the space
\* after the marker, a list item, plain text, a table row of three columns,
\* a divider row, a pipe inside a line, and the heading of a
\* "Best Suited For" section
MarkdownLines ==
    { <<"#", " ", "T">>,
      <<"#", "#", "#", " ", "T">>,
      <<"#", "T">>,
      <<"#", "#", "#", "T">>,
      <<"-", " ", "x">>,
      <<"a">>,
      <<"|", " ", "a", " ", "|", " ", "b", " ", "|", " ", "c", " ", "|">>,
      <<"|", "-", "-", "-", "|", "-", "-", "-", "|", "-", "-", "-", "|">>,
      <<"a", "|", "b">>,
      <<"#", "#", " ", BestSuitedFor>> }

\* the number of line breaks in a text
Newlines(text) == Cardinality({i \in DOMAIN text : text[i] = "\n"})

\* one more line is put at the end of the text
TypeLine(line) ==
    /\ IF arg = <<>> THEN TRUE ELSE arg[Len(arg)] = "\n"
    /\ arg' = arg \o line
    /\ res' = NoResult
    /\ UNCHANGED <<limiterVars, reqVars, appVars>>

\* a line break is put at the end of the text
TypeNewline ==
    /\ Newlines(arg) < MaxNewlines
    /\ arg' = Append(arg, "\n")
    /\ res' = NoResult
    /\ UNCHANGED <<limiterVars, reqVars, appVars>>

\* enhanceMarkdown(arg)
ApplyMarkdown ==
    /\ ~res.done
    /\ res' = Result(enhanceMarkdown(arg))
    /\ UNCHANGED <<arg, limiterVars, reqVars, appVars>>

NextMarkdown ==
    \/ \E line \in MarkdownLines : TypeLine(line)
    \/ TypeNewline
    \/ ApplyMarkdown

SpecMarkdown == InitLimiter /\ [][NextMarkdown]_vars

\* the text has no pipe character
NoPipes(text) == \A i \in DOMAIN text : text[i] # "|"

\* C20: enhanceMarkdown is idempotent on its own clean output: when the
\* output for a text has no pipe character, enhancing that output again
\* gives the same output.
C20_IdempotentOnCleanOutput ==
    res.done /\ NoPipes(res.value) => enhanceMarkdown(res.value) = res.value

\* the characters that are markdown or table syntax, not content
Markup == {"#", " ", "\n", "-", "|", "*", "_", ":"}

\* how many times the character ch stands in the text
Occurrences(ch, text) == Cardinality({i \in DOMAIN text : text[i] = ch})

\* the characters of the text that are content
ContentOf(text) == {text[i] : i \in DOMAIN text} \ Markup

\* C21: enhanceMarkdown drops no semantic content: every content character
\* of the input (table cells, text lines, headings, the rows after a
\* "Best Suited For" heading) stands in the output at least as often as in
\* the input; only syntax may go.
C21_NoContentDropped ==
    res.done =>
        \A ch \in ContentOf(arg) : Occurrences(ch, res.value) >= Occurrences(ch, arg)

\* C22: the output of enhanceMarkdown contains no pipe character, whatever
\* rows or stray pipes the input has.
C22_NoPipeInOutput == res.done => NoPipes(res.value)

(* ---------------- the HTTP routes ---------------- *)

\* a JSON value of a request body: its JavaScript type and, for a string,
\* its tokens (for a number or a boolean, its text)
StringValue(str) == [type |-> "string", str |-> str]

Undefined == [type |-> "undefined", str |-> <<>>]

NonStrings ==
    { Undefined,
      [type |-> "null", str |-> <<>>],
      [type |-> "number", str |-> <<"0">>],
      [type |-> "number", str |-> <<"7">>],
      [type |-> "boolean", str |-> <<"true">>],
      [type |-> "object", str |-> <<>>] }

\* !v
Falsy(v) ==
    \/ v.type \in {"undefined", "null"}
    \/ v.type = "string" /\ v.str = <<>>
    \/ v.type = "number" /\ v.str = <<"0">>
    \/ v.type = "boolean" /\ v.str = <<"false">>

ChatTokens == {"cashback", "Cashback", "travel", "credit", " ", "score", "card"}

\* the texts of at most n tokens
ChatTexts(n) == UNION {[1..k -> ChatTokens] : k \in 0..n}

\* the message field of the bodies posted to /api/chat; Undefined when the
\* body has no such field
ChatMessages == NonStrings \cup {StringValue(t) : t \in ChatTexts(MaxMessageLen)}

CashbackAnswer == "Based on your interest in cashback cards, ..."

TravelAnswer == "For travel benefits, ..."

CreditScoreAnswer == "To improve your credit score, ..."

DefaultAnswer == "I can help you find the perfect credit card! ..."

\* variant: every body is answered 200
chat_AcceptsAll(message) ==
    [status |-> 200, json |-> [response |-> DefaultAnswer]]

\* app.post("/api/chat"): the status and the JSON of the response for a
\* body with this message field; nothing in the try block throws for a
\* parsed body, so the catch block is not entered
chat(message) ==
    IF Falsy(message) \/ message.type # "string"
    THEN [status |-> 400, json |-> [message |-> "Invalid input"]]
    ELSE LET lower == toLowerCase(message.str)
             response ==
                 IF Includes(lower, <<"cashback">>) THEN CashbackAnswer
                 ELSE IF Includes(lower, <<"travel">>) THEN TravelAnswer
                 ELSE IF Includes(lower, <<"credit", " ", "score">>)
                 THEN CreditScoreAnswer
                 ELSE DefaultAnswer
         IN  [status |-> 200, json |-> [response |-> response]]

\* the request and its response, as one record
Replied(method, path, body, response) ==
    [method |-> method, path |-> path, body |-> body,
     status |-> response.status, json |-> response.json]

\* POST /api/chat
PostChat(message) ==
    /\ reply' = Replied("POST", "/api/chat", message, chat(message))
    /\ UNCHANGED <<session, catalog, storageWrites>>
    /\ UNCHANGED <<limiterVars, reqVars, pureVars, uiVars>>

NextServer ==
    \/ \E message \in ChatMessages : PostChat(message)

SpecServer == InitLimiter /\ [][NextServer]_vars

\* C23: POST /api/chat answers 400 when the message field is missing or not
\* a string, 200 with a response string for every string message, and 500
\* for no request that meets no internal failure.
C23_ChatStatus ==
    reply.path = "/api/chat" =>
        /\ reply.body.type # "string" => reply.status = 400
        /\ reply.body.type = "string" =>
               /\ reply.status = 200
               /\ reply.json.response \in
                      {CashbackAnswer, TravelAnswer, CreditScoreAnswer, DefaultAnswer}
        /\ reply.status # 500

\* C23 as the code has it: 400 when the message field is missing, not a
\* string or the empty string; 200 with one of the four answers for every
\* other string; never 500 for a parsed body.
C23_ChatStatusNonEmpty ==
    reply.path = "/api/chat" =>
        /\ reply.status \in {200, 400}
        /\ reply.status = 400 <=>
               (reply.body.type # "string" \/ reply.body.str = <<>>)
        /\ reply.status = 400 => reply.json = [message |-> "Invalid input"]
        /\ reply.status = 200 =>
               reply.json.response \in
                   {CashbackAnswer, TravelAnswer, CreditScoreAnswer, DefaultAnswer}

\* a message with an upper-case keyword has been answered 200, and the empty
\* message is the one string answered 400
C23_Witness ==
    /\ reply.status = 200
    /\ Includes(reply.body.str, <<"Cashback">>)
    /\ reply.json.response = CashbackAnswer
    /\ chat(StringValue(<<>>)).status = 400

\* a direct check is made in this step and finds no bucket for the
\* current window, so it creates one
CreatingCheck ==
    /\ windowKey(now) \notin DOMAIN tokens
    /\ now' = now
    /\ lastCheck' # lastCheck \/ tokens' # tokens

\* C24: after a rate-limit check that creates a new bucket no tracked
\* bucket has an expiry instant earlier than the time of the check, and the
\* bucket just created is tracked.
C24_CleanupAtCreation ==
    [][CreatingCheck =>
          /\ \A k \in DOMAIN tokens' : tokens'[k].resetTime >= now
          /\ windowKey(now) \in DOMAIN tokens'
          /\ tokens'[windowKey(now)].resetTime = now + windowMs]_vars

\* the check that created the bucket of window 2 has dropped the bucket of
\* window 0, in which checks had been admitted, and kept that of window 1
C24_Witness ==
    /\ lastCheck.at = now
    /\ windowKey(now) = 2
    /\ admitted[0] > 0
    /\ DOMAIN tokens = {1, 2}

\* a heading line of level k with the text T, with or without the space
\* after the marker
HeadingLine(k, spaced) ==
    [i \in 1..k |-> "#"] \o (IF spaced THEN <<" ">> ELSE <<>>) \o <<"T">>

\* C25: the heading passes keep the level: a heading line of one, two or
\* three '#', with or without the space after the marker, becomes the same
\* number of '#', one space and the text.
C25_HeadingLevelKept ==
    res.done =>
        \A k \in 1..3 : \A spaced \in BOOLEAN :
            arg = HeadingLine(k, spaced) => res.value = HeadingLine(k, TRUE)

(* ---------------- the chat UI (AIChat) ---------------- *)

\* what the user types into the input field
InputTexts == {<<>>, <<" ">>, <<"hi">>, <<" ", "hi", " ">>}

\* onChange of the input field: setInputValue(e.target.value)
SetInput(text) ==
    /\ inputValue' = text
    /\ UNCHANGED <<isLoading, uiMessages, inFlight, submits>>
    /\ UNCHANGED <<limiterVars, reqVars, pureVars, serverVars>>

\* variant: handleSubmit does not look at isLoading
Submit_IgnoresLoading ==
    /\ submits.sent < MaxSubmits
    /\ IF trim(inputValue) = <<>>
       THEN UNCHANGED uiVars
       ELSE /\ inputValue' = <<>>
            /\ uiMessages' = Append(uiMessages, [role |-> "user", content |-> inputValue])
            /\ isLoading' = TRUE
            /\ inFlight' = inFlight + 1
            /\ submits' = [submits EXCEPT !.sent = @ + 1]
    /\ UNCHANGED <<limiterVars, reqVars, pureVars, serverVars>>

\* handleSubmit, from the submit event to the await of apiRequest
Submit ==
    /\ submits.sent < MaxSubmits
    /\ IF trim(inputValue) = <<>> \/ isLoading
       THEN UNCHANGED uiVars
       ELSE /\ inputValue' = <<>>
            /\ uiMessages' = Append(uiMessages, [role |-> "user", content |-> inputValue])
            /\ isLoading' = TRUE
            /\ inFlight' = inFlight + 1
            /\ submits' = [submits EXCEPT !.sent = @ + 1]
    /\ UNCHANGED <<limiterVars, reqVars, pureVars, serverVars>>

\* the texts data.response can be: plain text and a heading
ChatResponses == {<<"a">>, <<"#", " ", "T">>}

\* what is shown for each of them
Shown == [response \in ChatResponses |-> enhanceMarkdown(response)]

\* handleSubmit resumes with the response: the rest of the try block, then
\* the finally block
Respond(response) ==
    /\ inFlight > 0
    /\ inFlight' = inFlight - 1
    /\ uiMessages' = Append(uiMessages,
                            [role |-> "assistant",
                             content |-> Shown[response]])
    /\ submits' = [submits EXCEPT !.answered = @ + 1]
    /\ isLoading' = FALSE
    /\ UNCHANGED inputValue
    /\ UNCHANGED <<limiterVars, reqVars, pureVars, serverVars>>

\* apiRequest or response.json() throws: the catch block, then the finally
\* block
Fail ==
    /\ inFlight > 0
    /\ inFlight' = inFlight - 1
    /\ submits' = [submits EXCEPT !.toasts = @ + 1]
    /\ isLoading' = FALSE
    /\ UNCHANGED <<inputValue, uiMessages>>
    /\ UNCHANGED <<limiterVars, reqVars, pureVars, serverVars>>

NextUI ==
    \/ \E text \in InputTexts : SetInput(text)
    \/ Submit
    \/ \E response \in ChatResponses : Respond(response)
    \/ Fail

SpecUI == InitLimiter /\ [][NextUI]_vars

\* every request sent is settled in the end, with a response or an error
SpecUIFair == SpecUI /\ WF_vars((\E response \in ChatResponses : Respond(response)) \/ Fail)

\* the assistant messages shown
AssistantMessages == {i \in DOMAIN uiMessages : uiMessages[i].role = "assistant"}

\* C26: the chat UI has one request at a time: at most one /api/chat request
\* is in flight, and isLoading says whether there is one; a request is sent
\* only from a non-blank input while nothing is loading; a step taken while
\* loading or with a blank input, other than the settling of the request,
\* sends nothing and appends nothing; an assistant message is appended for
\* every success and for nothing else; and isLoading always becomes false
\* again, whether the request succeeds or fails.
C26_SingleRequest ==
    /\ [](/\ inFlight <= 1
          /\ isLoading <=> inFlight = 1
          /\ Cardinality(AssistantMessages) = 1 + submits.answered
          /\ submits.answered + submits.toasts + inFlight = submits.sent)
    /\ [][/\ submits'.sent # submits.sent =>
                 ~isLoading /\ trim(inputValue) # <<>>
          /\ (isLoading \/ trim(inputValue) = <<>>) /\ inFlight' >= inFlight =>
                 uiMessages' = uiMessages /\ inFlight' = inFlight]_vars
    /\ (isLoading ~> ~isLoading)

\* two messages have been sent, one was answered and one failed, and
\* nothing is loading
C26_Witness ==
    /\ submits = [sent |-> 2, answered |-> 1, toasts |-> 1]
    /\ ~isLoading
    /\ inFlight = 0

(* ---------------- provider calls and the limiter ---------------- *)

\* request r starts a provider call in this step
CallStarts(r) == calls'[r] # calls[r]

\* the limiter admits a check in this step
AdmissionAt(k) == admitted'[k] # admitted[k]

\* C27: every provider call of generateResponse, a retry's included, is
\* started in the step that makes its own rate-limit check, and that check
\* is admitted: the call counts one in the bucket of the current time, and
\* nothing is admitted without starting one call; so the calls started in a
\* bucket never exceed 10 over all requests; one generateResponse call makes
\* at most 1 + 3 = 4 provider calls, each with its own slot; and the check of
\* a retry can reject like any other (a rejection leaves the calls as they
\* are).
C27_CallsAreAdmitted ==
    /\ [](/\ \A k \in BucketKeys : admitted[k] <= maxRequests
          /\ \A r \in Requests : calls[r] <= MAX_RETRIES + 1
          /\ \A r \in Requests : rejected[r].happened => pc[r] = "done")
    /\ [][/\ \A r \in Requests :
                CallStarts(r) =>
                    /\ calls'[r] = calls[r] + 1
                    /\ validations'[r] = validations[r] + 1
                    /\ checkRateLimit(tokens, now).allowed
                    /\ tokens' = checkRateLimit(tokens, now).tokens
                    /\ admitted'[windowKey(now)] = admitted[windowKey(now)] + 1
                    /\ \A q \in Requests \ {r} : ~CallStarts(q)
          /\ \A k \in BucketKeys :
                AdmissionAt(k) =>
                    /\ k = windowKey(now)
                    /\ admitted'[k] = admitted[k] + 1
                    /\ \E r \in Requests : CallStarts(r)
          /\ \A r \in Requests :
                rejected'[r] # rejected[r] =>
                    /\ ~checkRateLimit(tokens, now).allowed
                    /\ calls' = calls
                    /\ admitted' = admitted]_vars

\* C27 witness: the check of a retry was rejected: the request made its
\* first provider call, the other request took the last slot of the bucket
\* meanwhile, and the retry found the bucket full
C27_Witness ==
    \E r \in Requests :
        /\ rejected[r].happened
        /\ rejected[r].attempt >= 1
        /\ calls[r] = rejected[r].attempt
        /\ admitted[windowKey(now)] = maxRequests

\* one generateResponse call has used four slots: the provider failed four
\* times
C27_FourSlots ==
    \E r \in Requests :
        /\ calls[r] = MAX_RETRIES + 1
        /\ pc[r] = "done"
        /\ outcome[r].kind = "error"

\* the first instant after the bucket with key k
EndOf(k) == (k + 1) * windowMs

\* C28: the expiry stored for a tracked bucket with key k lies in
\* [(k+1)*W, (k+2)*W), so it is never before the end of the bucket; the
\* instant a rejection reports is that of the bucket of the check, so a check
\* at or after it is in a later bucket; and the instant is less than one
\* window after the end of the bucket, the moment from which checks are
\* admitted again.
C28_ExpiryRange ==
    /\ \A k \in DOMAIN tokens :
          /\ tokens[k].resetTime >= EndOf(k)
          /\ tokens[k].resetTime < EndOf(k) + windowMs
    /\ ~lastCheck.allowed =>
          /\ lastCheck.resetTime = tokens[windowKey(lastCheck.at)].resetTime
          /\ windowKey(lastCheck.resetTime) > windowKey(lastCheck.at)
          /\ lastCheck.resetTime - EndOf(windowKey(lastCheck.at)) < windowMs

\* C28 witness: a rejection reports an instant later than the end of its
\* bucket, and the clock has passed that end: a check made now is in the
\* next bucket although the instant reported has not come
C28_Witness ==
    /\ ~lastCheck.allowed
    /\ now >= EndOf(windowKey(lastCheck.at))
    /\ now < lastCheck.resetTime
    /\ checkRateLimit(tokens, now).allowed

\* C29: with a clock that never goes back, after any checks the map holds at
\* most 2 buckets, that of the latest check and at most the one just before
\* it, and every tracked counter is between 0 and 10.
C29_MapBounded ==
    /\ Cardinality(DOMAIN tokens) <= 2
    /\ \A k \in DOMAIN tokens : tokens[k].count >= 0 /\ tokens[k].count <= maxRequests
    /\ lastCheck # NoCheck =>
          /\ windowKey(lastCheck.at) \in DOMAIN tokens
          /\ DOMAIN tokens \subseteq
                {windowKey(lastCheck.at) - 1, windowKey(lastCheck.at)}

\* C29 witness: a third bucket has been made; the first one, which had
\* admitted checks, is gone, and the second one, full, is still tracked
C29_Witness ==
    /\ lastCheck # NoCheck
    /\ windowKey(lastCheck.at) = windowKey(StartTime) + 2
    /\ admitted[windowKey(StartTime)] > 0
    /\ DOMAIN tokens = {windowKey(StartTime) + 1, windowKey(StartTime) + 2}
    /\ tokens[windowKey(StartTime) + 1].count = maxRequests

(* ---------------- the admin routes ---------------- *)

Chars(word) == [type |-> "string", str |-> word]

AdminName == <<"a", "d", "m", "i", "n">>

AdminPassword == <<"s", "e", "c", "r", "e", "t">>

\* the users table: one administrator
Users ==
    { [id |-> 1, username |-> AdminName, password |-> AdminPassword,
       isAdmin |-> TRUE] }

\* storage.getUserByUsername finds nobody
NoSuchUser == [id |-> NoUser, username |-> <<>>, password |-> <<>>, isAdmin |-> FALSE]

\* what storage.getUserByUsername(username) can return. The handler takes
\* username from the parsed body, which has the fields of loginSchema only,
\* so the lookup is made with undefined: any row or none
Lookups == Users \cup {NoSuchUser}

\* loginSchema.safeParse(body).success
loginSchema(body) ==
    /\ body.usernameOrEmail.type = "string"
    /\ Len(body.usernameOrEmail.str) >= 3
    /\ body.password.type = "string"
    /\ Len(body.password.str) >= 6

LoginBodies ==
    [usernameOrEmail : {Chars(AdminName), Chars(<<"a", "b">>), Undefined},
     password : {Chars(AdminPassword), Chars(<<"w", "r", "o", "n", "g", "1">>),
                 Chars(<<"p", "w">>), Undefined}]

LoggedOut == [userId |-> NoUser, isAdmin |-> FALSE]

\* app.post("/api/auth/login"): the response and the session it leaves
login(body, found, throws, sess) ==
    IF ~loginSchema(body)
    THEN [status |-> 400, json |-> [message |-> "Invalid input"], session |-> sess]
    ELSE IF throws
    THEN [status |-> 500, json |-> [message |-> "Server error"], session |-> sess]
    ELSE IF found = NoSuchUser \/ found.password # body.password.str
    THEN [status |-> 401, json |-> [message |-> "Invalid credentials"], session |-> sess]
    ELSE [status |-> 200, json |-> [id |-> found.id, isAdmin |-> found.isAdmin],
          session |-> [userId |-> found.id, isAdmin |-> found.isAdmin]]

\* app.post("/api/auth/logout"): req.session.destroy and its callback
logout(err, sess) ==
    IF err
    THEN [status |-> 500, json |-> [message |-> "Failed to logout"], session |-> sess]
    ELSE [status |-> 200, json |-> [message |-> "Logged out successfully"],
          session |-> LoggedOut]

\* variant: requireAuth lets every request through
requireAuth_Open(sess) == TRUE

\* requireAuth calls next()
requireAuth(sess) == sess.userId # NoUser

Unauthorized(items) ==
    [status |-> 401, json |-> [message |-> "Unauthorized"], items |-> items, calls |-> 0]

\* the id storage gives to a new item
NextId(items) ==
    IF DOMAIN items = {} THEN 1
    ELSE 1 + CHOOSE id \in DOMAIN items : \A other \in DOMAIN items : other <= id

\* the handler of app.post("/api/<collection>"): the response, the items of
\* the collection afterwards and the storage calls made
create(items, valid, throws) ==
    IF ~valid
    THEN [status |-> 400, json |-> [message |-> "Invalid input"], items |-> items, calls |-> 0]
    ELSE IF throws
    THEN [status |-> 500, json |-> [message |-> "Server error"], items |-> items, calls |-> 1]
    ELSE [status |-> 201, json |-> [id |-> NextId(items), revision |-> 0],
          items |-> [id \in DOMAIN items \cup {NextId(items)} |->
                        IF id \in DOMAIN items THEN items[id] ELSE 0],
          calls |-> 1]

\* the handler of app.put("/api/<collection>/:id")
update(items, id, valid, throws) ==
    IF ~valid
    THEN [status |-> 400, json |-> [message |-> "Invalid input"], items |-> items, calls |-> 0]
    ELSE IF throws
    THEN [status |-> 500, json |-> [message |-> "Server error"], items |-> items, calls |-> 1]
    ELSE IF id \notin DOMAIN items
    THEN [status |-> 404, json |-> [message |-> "not found"], items |-> items, calls |-> 1]
    ELSE [status |-> 200, json |-> [id |-> id, revision |-> items[id] + 1],
          items |-> [items EXCEPT ![id] = @ + 1], calls |-> 1]

\* the handler of app.delete("/api/<collection>/:id")
delete(items, id, throws) ==
    IF throws
    THEN [status |-> 500, json |-> [message |-> "Server error"], items |-> items, calls |-> 1]
    ELSE IF id \notin DOMAIN items
    THEN [status |-> 404, json |-> [message |-> "not found"], items |-> items, calls |-> 1]
    ELSE [status |-> 204, json |-> [id |-> id, revision |-> items[id]],
          items |-> [other \in DOMAIN items \ {id} |-> items[other]], calls |-> 1]

MutatingMethods == {"POST", "PUT", "DELETE"}

\* the requests to the mutating catalog routes: the method, the collection,
\* the :id of the path (0 when the path has none), whether the body passes
\* the insert schema, and whether storage throws
CatalogRequests ==
    [method : {"POST"}, collection : Collections, id : {0},
     valid : BOOLEAN, throws : BOOLEAN]
    \cup [method : {"PUT", "DELETE"}, collection : Collections, id : {1, 2},
          valid : BOOLEAN, throws : BOOLEAN]

\* the route of a request, behind requireAuth
route(req, sess, items) ==
    IF ~requireAuth(sess) THEN Unauthorized(items)
    ELSE IF req.method = "POST" THEN create(items, req.valid, req.throws)
    ELSE IF req.method = "PUT" THEN update(items, req.id, req.valid, req.throws)
    ELSE delete(items, req.id, req.throws)

\* POST /api/auth/login
Login(body, found, throws) ==
    LET r == login(body, found, throws, session)
    IN  /\ session' = r.session
        /\ reply' = Replied("POST", "/api/auth/login", body, r)
        /\ UNCHANGED <<catalog, storageWrites>>
        /\ UNCHANGED <<limiterVars, reqVars, pureVars, uiVars>>

\* POST /api/auth/logout
Logout(err) ==
    LET r == logout(err, session)
    IN  /\ session' = r.session
        /\ reply' = Replied("POST", "/api/auth/logout", <<>>, r)
        /\ UNCHANGED <<catalog, storageWrites>>
        /\ UNCHANGED <<limiterVars, reqVars, pureVars, uiVars>>

\* POST, PUT or DELETE on a catalog collection
Mutate(req) ==
    LET r == route(req, session, catalog[req.collection])
    IN  /\ storageWrites < MaxWrites
        /\ catalog' = [catalog EXCEPT ![req.collection] = r.items]
        /\ storageWrites' = storageWrites + r.calls
        /\ reply' = Replied(req.method, req.collection, req, r)
        /\ UNCHANGED session
        /\ UNCHANGED <<limiterVars, reqVars, pureVars, uiVars>>

\* GET /api/<collection>
GetAll(c) ==
    /\ reply' = Replied("GET", c, <<>>,
                        [status |-> 200, json |-> catalog[c]])
    /\ UNCHANGED <<session, catalog, storageWrites>>
    /\ UNCHANGED <<limiterVars, reqVars, pureVars, uiVars>>

NextAdmin ==
    \/ \E body \in LoginBodies, found \in Lookups, throws \in BOOLEAN :
          Login(body, found, throws)
    \/ \E err \in BOOLEAN : Logout(err)
    \/ \E req \in CatalogRequests : Mutate(req)
    \/ \E c \in Collections : GetAll(c)

SpecAdmin == InitLimiter /\ [][NextAdmin]_vars

\* the last request handled went to a mutating catalog route
MutatingReply(r) == r.method \in MutatingMethods /\ r.path \in Collections

\* C30: every mutating catalog route is behind requireAuth: a POST, PUT or
\* DELETE on a collection made with no userId in the session is answered 401
\* and makes no storage call; no step taken with no userId in the session
\* changes the stored catalog, so the catalog is the initial one as long as
\* no storage call was made; a request that got past the gate was made in a
\* session with a userId; the userId is set only by a login answered 200
\* whose password is that of the stored user it names; and after a logout
\* answered 200 the session has no userId.
C30_MutationsNeedLogin ==
    /\ [](/\ storageWrites = 0 => catalog = InitialCatalog
          /\ MutatingReply(reply) /\ reply.status # 401 => session.userId # NoUser
          /\ MutatingReply(reply) /\ reply.status = 401 => session.userId = NoUser
          /\ reply.path = "/api/auth/logout" /\ reply.status = 200 =>
                session = LoggedOut)
    /\ [][session.userId = NoUser =>
              /\ catalog' = catalog
              /\ storageWrites' = storageWrites
              /\ MutatingReply(reply') /\ reply' # reply => reply'.status = 401]_vars
    /\ [][session'.userId # session.userId =>
              IF session'.userId = NoUser
              THEN reply'.path = "/api/auth/logout" /\ reply'.status = 200
              ELSE /\ reply'.path = "/api/auth/login"
                   /\ reply'.status = 200
                   /\ \E user \in Users :
                         /\ user.id = session'.userId
                         /\ reply'.body.password = Chars(user.password)]_vars

\* C30 witness: a delete is refused with 401 in a session that has no userId
\* any more: an administrator had logged in, changed the catalog and logged
\* out, and the catalog is as the administrator left it
C30_Witness ==
    /\ reply.method = "DELETE"
    /\ reply.path \in Collections
    /\ reply.status = 401
    /\ session.userId = NoUser
    /\ storageWrites > 0
    /\ catalog # InitialCatalog

====
